---- MODULE Spec2Model ----
(***************************************************************************)
(* Model of MovieDimensionService: the aspect-ratio detector               *)
(* (movie_dimension.py: calculate_visible_height, _log,                    *)
(* get_file_path_from_plex) and the HTTP endpoint with its path resolver   *)
(* (app.py: calculate, map_plex_path_to_container).                        *)
(*                                                                         *)
(* Conventions                                                             *)
(*  - ratios are integers in hundredths (1.76 is 176);                     *)
(*  - a Python str is a sequence of one-character strings; the Python      *)
(*    value None is the one-element sequence None (no character of a path  *)
(*    is the token "None");                                                *)
(*  - an optional integer (min_x = None) is NoneInt.                       *)
(***************************************************************************)
EXTENDS Integers, Sequences, FiniteSets, TLC

(***************************************************************************)
(* Bounds of the model.                                                    *)
(***************************************************************************)
MaxW == 3
MaxH == 3
MaxFrameCount == 3
MaxSample == 2
MaxTotal == 100
MaxN == 10
MaxPathLen == 6

(***************************************************************************)
(* Python values.                                                          *)
(***************************************************************************)
None == <<"None">>
NoneInt == -1
Truthy(s) == s # None /\ s # <<>>

Min2(a, b) == IF a <= b THEN a ELSE b
Max2(a, b) == IF a >= b THEN a ELSE b

(***************************************************************************)
(* movie_dimension.py: the table of bands and the default.                 *)
(***************************************************************************)
VALID_RATIOS == << <<175, 179>>, <<235, 240>>, <<220, 225>>, <<184, 190>> >>
DEFAULT_RATIO == 176

(***************************************************************************)
(* round(float(vis_w) / float(vis_h), 2), in hundredths.  Python rounds    *)
(* the double nearest to w/h correctly; a quotient that lies exactly       *)
(* halfway between two hundredths has a reduced denominator of 8, 40 or    *)
(* 200.  With denominator 8 the double is exact and the tie goes to the    *)
(* even hundredth (round(15/8, 2) = 1.88, round(5/8, 2) = 0.62); the       *)
(* denominators 40 and 200 lie beyond the heights modelled here.           *)
(***************************************************************************)
Round2(w, h) ==
    LET q == (100 * w) \div h
        r == (100 * w) % h
    IN  IF 2 * r < h THEN q
        ELSE IF 2 * r > h THEN q + 1
        ELSE IF q % 2 = 0 THEN q ELSE q + 1

(***************************************************************************)
(* Lines 184-190: the first band of the table that contains the ratio      *)
(* returns it; no band returns the default.                                *)
(***************************************************************************)
RECURSIVE ClassifyFrom(_, _)
ClassifyFrom(ratio, k) ==
    IF k > Len(VALID_RATIOS) THEN DEFAULT_RATIO
    ELSE IF VALID_RATIOS[k][1] <= ratio /\ ratio <= VALID_RATIOS[k][2] THEN ratio
    ELSE ClassifyFrom(ratio, k + 1)

\* only the first band of the table is looked at
ClassifyFirstBand(ratio) ==
    IF VALID_RATIOS[1][1] <= ratio /\ ratio <= VALID_RATIOS[1][2] THEN ratio
    ELSE DEFAULT_RATIO

Classify(ratio) == ClassifyFrom(ratio, 1)

(***************************************************************************)
(* Lines 89-96: the sampled frame indices.  PyFloorDiv is Python's //.     *)
(***************************************************************************)
PyFloorDiv(a, b) == a \div b

\* the indices counted from 1 instead of 0
SampleIndicesFromOne(fc, n) ==
    IF fc <= n THEN [i \in 1..fc |-> i - 1]
    ELSE LET step == Max2(1, PyFloorDiv(fc, n))
         IN  [i \in 1..Max2(n, 0) |-> Min2(fc - 1, i * step)]

SampleIndices(fc, n) ==
    IF fc <= n THEN [i \in 1..fc |-> i - 1]
    ELSE LET step == Max2(1, PyFloorDiv(fc, n))
         IN  [i \in 1..Max2(n, 0) |-> Min2(fc - 1, (i - 1) * step)]

(***************************************************************************)
(* app.py: strings.                                                        *)
(***************************************************************************)
Sep == "/"
Bsl == "\\"
\* the letters of the modelled paths, and a local root made of them
\* (VIDEO_ROOT is read from the environment, line 10)
Letters == {"Y"}
Chars == {Sep, Bsl, ":", " "} \cup Letters
VIDEO_ROOT == <<"/", "Y">>

StartsWith(s, p) == Len(s) >= Len(p) /\ SubSeq(s, 1, Len(p)) = p

\* str.replace('\\\\', '/'): non-overlapping pairs of backslashes, left to right
RECURSIVE ReplaceDouble(_)
ReplaceDouble(s) ==
    IF Len(s) = 0 THEN <<>>
    ELSE IF Len(s) >= 2 /\ s[1] = Bsl /\ s[2] = Bsl
         THEN <<Sep>> \o ReplaceDouble(SubSeq(s, 3, Len(s)))
         ELSE <<s[1]>> \o ReplaceDouble(Tail(s))

\* str.replace('\\', '/')
ReplaceSingle(s) == [i \in 1..Len(s) |-> IF s[i] = Bsl THEN Sep ELSE s[i]]

RECURSIVE LStrip(_, _)
LStrip(s, c) == IF Len(s) > 0 /\ s[1] = c THEN LStrip(Tail(s), c) ELSE s

RECURSIVE RStrip(_, _)
RStrip(s, c) ==
    IF Len(s) > 0 /\ s[Len(s)] = c THEN RStrip(SubSeq(s, 1, Len(s) - 1), c) ELSE s

\* str.strip()
Strip(s) == RStrip(LStrip(s, " "), " ")

\* line 24
Normalize(s) == Strip(ReplaceSingle(ReplaceDouble(s)))

\* os.path.basename: what follows the last '/'
RECURSIVE Basename(_)
Basename(s) ==
    IF \E i \in 1..Len(s) : s[i] = Sep
    THEN Basename(Tail(s))
    ELSE s

IsAbs(s) == Len(s) > 0 /\ s[1] = Sep

\* os.path.join(a, b)
Join(a, b) ==
    IF IsAbs(b) THEN b
    ELSE IF Len(a) = 0 \/ a[Len(a)] = Sep THEN a \o b
    ELSE a \o <<Sep>> \o b

\* the drive letter matched without the separator after the colon
DriveMatchNoSep(s) == Len(s) >= 2 /\ s[1] \in Letters /\ s[2] = ":"

\* re.match(r'^[A-Za-z]:/(.*)', path)
DriveMatch(s) == Len(s) >= 3 /\ s[1] \in Letters /\ s[2] = ":" /\ s[3] = Sep

\* lines 13-43
map_plex_path_to_container(plex_path) ==
    IF ~Truthy(plex_path) THEN None
    ELSE LET path == Normalize(plex_path)
         IN  IF StartsWith(path, VIDEO_ROOT) THEN path
             ELSE IF DriveMatch(path)
                  THEN Join(VIDEO_ROOT, LStrip(SubSeq(path, 4, Len(path)), Sep))
             ELSE IF StartsWith(path, <<Sep, Sep>>) \/ StartsWith(path, <<Sep>>)
                  THEN Join(VIDEO_ROOT, LStrip(path, Sep))
             ELSE Join(VIDEO_ROOT, Basename(path))

(***************************************************************************)
(* movie_dimension.py: frames.  A decoded frame of a width x height video  *)
(* is a picture rectangle of one colour (B, G, R) framed by pure black     *)
(* bars; the rectangle may be the whole frame.  Coordinates are 0-based,   *)
(* as the pixel coordinates cv2.findNonZero returns.                       *)
(***************************************************************************)
Black == <<0, 0, 0>>
Grey == <<16, 16, 16>>
Blue == <<255, 0, 0>>
Colours == {Black, Grey, Blue}

\* the frame sizes of the videos: every size up to MaxW x MaxH, and sizes
\* whose picture ratios fall in each band of VALID_RATIOS
Dims == ((1..MaxW) \X (1..MaxH)) \cup {<<7, 4>>, <<12, 5>>, <<13, 7>>}

\* picture rectangles: flush with the frame's edge or one pixel inside it
Lo(n) == {0, 1} \cap (0..(n - 1))
Hi(n) == {n - 2, n - 1} \cap (0..(n - 1))

FrameSet(w, h) ==
    {f \in [x0 : Lo(w), x1 : Hi(w), y0 : Lo(h), y1 : Hi(h), pic : Colours] :
        f.x0 <= f.x1 /\ f.y0 <= f.y1}

\* cv2.cvtColor(frame, cv2.COLOR_BGR2GRAY): Y = 0.114 B + 0.587 G + 0.299 R
Gray(bgr) == (114 * bgr[1] + 587 * bgr[2] + 299 * bgr[3] + 500) \div 1000

\* the threshold itself counted as content
ThresholdInclusive(g, thresh) == IF g >= thresh THEN 255 ELSE 0

\* cv2.threshold(gray, black_thresh, 255, cv2.THRESH_BINARY), one pixel
Threshold(g, thresh) == IF g > thresh THEN 255 ELSE 0

\* cv2.findNonZero(mask) reduced to the extremes lines 129-134 take of it;
\* NoCoords is the None of line 124
NoCoords == [x0 |-> NoneInt, x1 |-> NoneInt, y0 |-> NoneInt, y1 |-> NoneInt]

\* the bars have luminance 0, which no threshold >= 0 lets through
FindNonZero(f, thresh) ==
    IF Threshold(Gray(f.pic), thresh) # 0
    THEN [x0 |-> f.x0, x1 |-> f.x1, y0 |-> f.y0, y1 |-> f.y1]
    ELSE NoCoords

(***************************************************************************)
(* Lines 36-50: _log.  log_func is None ("none": the module logger gets    *)
(* the record), a callback that accepts level= ("kw"), or a callback that  *)
(* rejects the keyword ("positional"): its TypeError is caught at line 40  *)
(* and the callback is called again with the message alone.  LogRaises     *)
(* tells whether the _log call ends by raising.                            *)
(***************************************************************************)
LogFuncs == {"none", "kw", "positional"}

LogRaises(lf, level) == FALSE

(***************************************************************************)
(* State.  The arguments and locals of calculate_visible_height keep the   *)
(* names of the source; pc is the position of the single thread.           *)
(***************************************************************************)
VARIABLES
    pc,             \* position in the request / the call
    caller,         \* "direct": calculate_visible_height called with arguments;
                    \* "http": called by the /calculate handler
    req_file_path,  \* data.get('file_path')
    rating_key,     \* data.get('rating_key')
    plex_conf,      \* plex_base_url and plex_token are both set
    plex_path,      \* what get_file_path_from_plex returned
    status,         \* HTTP status of the response, 0 before it
    valid,          \* the response's valid flag
    file_path,      \* argument
    log_func,       \* argument: the kind of log callback
    sample_frames,  \* argument
    black_thresh,   \* argument
    cap_open,       \* the VideoCapture holds the opened resource
    opened,         \* cap.isOpened() was true after line 75
    frame_count, indices, i, samples_taken,
    width, height, min_x, min_y, max_x, max_y, found_any,
    exc,            \* the exception on its way to line 192, "" when none
    result,         \* the value returned, NoneInt before the return
    failure,        \* the failure path taken, "" when none
    mapped,         \* result of map_plex_path_to_container (path resolver runs)
    \* history of the run, read by the properties only
    brightOnly,     \* every frame decoded so far is brighter than black_thresh
                    \* over the full frame
    anyAbove,       \* some decoded frame has a pixel above black_thresh
    failSeen,       \* some cap.read() failed
    lateContent,    \* a frame read after a failed read contributed pixels
    lastHad         \* the frame decoded last has a pixel above black_thresh

httpVars == <<caller, req_file_path, rating_key, plex_conf, plex_path, status, valid>>
argVars == <<file_path, log_func, sample_frames, black_thresh>>
capVars == <<cap_open, opened>>
loopVars == <<frame_count, indices, i, samples_taken>>
boxVars == <<width, height, min_x, min_y, max_x, max_y, found_any>>
histVars == <<brightOnly, anyAbove, failSeen, lateContent, lastHad>>
vars == <<pc, httpVars, argVars, capVars, loopVars, boxVars, histVars,
          exc, result, failure, mapped>>

(***************************************************************************)
(* Inputs.                                                                 *)
(***************************************************************************)
SomeRel == <<"Y">>
SomeAbs == <<"/", "Y", "/", "Y">>
FilePaths == {None, <<>>, SomeRel, SomeAbs}
RatingKeys == {None, <<"7">>}
PlexPaths == {<<"Y", ":", "\\", "Y">>, SomeAbs, <<"/", ":">>}
SampleCounts == (-1)..MaxSample
\* a negative count takes the same path as 0
FrameCounts == 0..MaxFrameCount
Thresholds == {15, 16}
DefaultSampleFrames == 8
DefaultBlackThresh == 16

LocalsInit ==
    /\ indices = <<>> /\ i = 0 /\ samples_taken = 0
    /\ width = 0 /\ height = 0
    /\ min_x = NoneInt /\ min_y = NoneInt /\ max_x = NoneInt /\ max_y = NoneInt
    /\ found_any = FALSE
    /\ exc = "" /\ result = NoneInt /\ failure = ""
    /\ brightOnly = TRUE /\ anyAbove = FALSE /\ failSeen = FALSE
    /\ lateContent = FALSE /\ lastHad = FALSE

NoRequest ==
    /\ req_file_path = None /\ rating_key = None /\ plex_conf = FALSE
    /\ plex_path = None /\ status = 0 /\ valid = FALSE

\* a direct call of calculate_visible_height, or a POST to /calculate
Init ==
    /\ LocalsInit
    /\ cap_open = FALSE /\ opened = FALSE /\ frame_count = 0
    /\ mapped = None
    /\ \/ /\ caller = "direct" /\ pc = "start"
          /\ NoRequest
          /\ file_path \in {<<>>, SomeAbs}
          /\ log_func \in LogFuncs
          /\ sample_frames \in SampleCounts
          /\ black_thresh \in Thresholds
       \/ /\ caller = "http" /\ pc = "http"
          /\ req_file_path \in FilePaths
          /\ rating_key \in RatingKeys
          /\ plex_conf \in BOOLEAN
          /\ plex_path = None /\ status = 0 /\ valid = FALSE
          /\ file_path = None /\ log_func = "none"
          /\ sample_frames = DefaultSampleFrames
          /\ black_thresh = DefaultBlackThresh

(***************************************************************************)
(* calculate_visible_height, lines 70-194.                                 *)
(***************************************************************************)
Goto(p) == pc' = p /\ UNCHANGED <<exc, result, failure>>

\* an exception raised inside the try block of line 70
Raise(e) == pc' = "except" /\ exc' = e /\ UNCHANGED <<result, failure>>

\* a return of the function with value r
Return(r, why) == pc' = "returned" /\ result' = r /\ failure' = why /\ exc' = exc

\* a _log call inside the try block, then the step next
Logged(level, next) ==
    IF LogRaises(log_func, level) THEN Raise("TypeError") ELSE next

\* lines 71-73; os.path.exists answers for the file system
CheckPath ==
    /\ pc = "start"
    /\ \E exists \in BOOLEAN :
          IF ~Truthy(file_path) \/ ~exists
          THEN Logged("ERROR", Return(DEFAULT_RATIO, "missing"))
          ELSE Goto("open")
    /\ UNCHANGED <<httpVars, argVars, capVars, loopVars, boxVars, histVars,
                   mapped>>

\* lines 75-78; cap.isOpened() answers for OpenCV
OpenCapture ==
    /\ pc = "open"
    /\ \E ok \in BOOLEAN :
          IF ~ok
          THEN /\ Logged("ERROR", Return(DEFAULT_RATIO, "open"))
               /\ UNCHANGED capVars
          ELSE /\ cap_open' = TRUE
               /\ opened' = TRUE
               /\ Goto("count")
    /\ UNCHANGED <<httpVars, argVars, loopVars, boxVars, histVars, mapped>>

\* line 82: int(cap.get(cv2.CAP_PROP_FRAME_COUNT) or 0), whatever the
\* container's metadata says
ReadFrameCount ==
    /\ pc = "count"
    /\ \E fc \in FrameCounts : frame_count' = fc
    /\ Goto("indices")
    /\ UNCHANGED <<httpVars, argVars, capVars, indices, i, samples_taken,
                   boxVars, histVars, mapped>>

\* line 95 divides by sample_frames
IndexError(fc, n) == fc > 0 /\ fc > n /\ n = 0

\* lines 105 and 139: the loop that runs first, "release" when none does
FirstLoop(fc, idx, n) ==
    IF fc > 0 /\ idx # <<>> THEN "indexed"
    ELSE IF 0 < n THEN "sequential"
    ELSE "release"

\* lines 89-106 and 137-139: the indices, and the loop that will run
ComputeIndices ==
    /\ pc = "indices"
    /\ IF IndexError(frame_count, sample_frames)
       THEN /\ Raise("ZeroDivisionError")
            /\ UNCHANGED indices
       ELSE /\ indices' = IF frame_count > 0
                          THEN SampleIndices(frame_count, sample_frames)
                          ELSE <<>>
            /\ Logged("INFO", Goto(FirstLoop(frame_count, indices', sample_frames)))
    /\ UNCHANGED <<httpVars, argVars, capVars, frame_count, i, samples_taken,
                   boxVars, histVars, mapped>>

\* the box overwritten by the frame's extremes
AccumulateLast(box, coords) ==
    [min_x |-> coords.x0, max_x |-> coords.x1,
     min_y |-> coords.y0, max_y |-> coords.y1]

\* lines 131-134 (and 161-164): one frame's extremes folded into the box
Accumulate(box, coords) ==
    [min_x |-> Min2(box.min_x, coords.x0), max_x |-> Max2(box.max_x, coords.x1),
     min_y |-> Min2(box.min_y, coords.y0), max_y |-> Max2(box.max_y, coords.y1)]

\* lines 117-118 (and 147-148): the empty extremes
EmptyBox(w, h) == [min_x |-> w, max_x |-> 0, min_y |-> h, max_y |-> 0]

Box == [min_x |-> min_x, max_x |-> max_x, min_y |-> min_y, max_y |-> max_y]

\* every pixel of the frame is above the threshold
UniformBright(f, w, h, thresh) ==
    /\ f.x0 = 0 /\ f.x1 = w - 1 /\ f.y0 = 0 /\ f.y1 = h - 1
    /\ Gray(f.pic) > thresh

\* the sizes a decoded frame can have: the video's, once a frame told it
FrameDims == IF width = 0 \/ height = 0 THEN Dims ELSE {<<width, height>>}

\* lines 114-134 (and 145-164): a decoded frame f of size d
ProcessFrame(f, d) ==
    LET fresh == width = 0 \/ height = 0
        base == IF fresh THEN EmptyBox(d[1], d[2]) ELSE Box
        coords == FindNonZero(f, black_thresh)
        box == IF coords = NoCoords THEN base ELSE Accumulate(base, coords)
    IN  /\ width' = d[1]
        /\ height' = d[2]
        /\ min_x' = box.min_x /\ max_x' = box.max_x
        /\ min_y' = box.min_y /\ max_y' = box.max_y
        /\ found_any' = (found_any \/ coords # NoCoords)
        /\ brightOnly' = (brightOnly /\ UniformBright(f, d[1], d[2], black_thresh))
        /\ anyAbove' = (anyAbove \/ Gray(f.pic) > black_thresh)
        /\ lateContent' = (lateContent \/ (failSeen /\ coords # NoCoords))
        /\ failSeen' = failSeen
        /\ lastHad' = (Gray(f.pic) > black_thresh)

\* where the indexed loop goes after its n-th pass
IndexedNext(n) == IF n = Len(indices) THEN "release" ELSE "indexed"

\* the indexed loop left at a failed read
IndexedBreak(n) == "release"

\* lines 110-112: the indexed loop after a failed read at its n-th pass
IndexedAfterFail(n) == IndexedNext(n)

\* lines 107-134: one pass of the indexed loop; the seek and the read
\* answer for the decoder, and any OpenCV call of the pass may raise
IndexedIter ==
    /\ pc = "indexed"
    /\ \/ /\ failSeen' = TRUE
          /\ i' = i + 1
          /\ Logged("WARNING", Goto(IndexedAfterFail(i + 1)))
          /\ UNCHANGED <<boxVars, brightOnly, anyAbove, lateContent, lastHad>>
       \/ /\ Raise("cv2.error")
          /\ UNCHANGED <<i, boxVars, histVars>>
       \/ /\ \E d \in FrameDims : \E f \in FrameSet(d[1], d[2]) :
                /\ ProcessFrame(f, d)
                /\ IF FindNonZero(f, black_thresh) = NoCoords
                   THEN Logged("DEBUG", Goto(IndexedNext(i + 1)))
                   ELSE Goto(IndexedNext(i + 1))
          /\ i' = i + 1
    /\ UNCHANGED <<httpVars, argVars, capVars, frame_count, indices,
                   samples_taken, mapped>>

\* lines 141-143: the sequential loop after a failed read
SequentialAfterFail == "release"

\* lines 139-165: one pass of the sequential loop
SequentialIter ==
    /\ pc = "sequential"
    /\ \/ /\ failSeen' = TRUE
          /\ Logged("WARNING", Goto(SequentialAfterFail))
          /\ UNCHANGED <<samples_taken, boxVars, brightOnly, anyAbove,
                         lateContent, lastHad>>
       \/ /\ Raise("cv2.error")
          /\ UNCHANGED <<samples_taken, boxVars, histVars>>
       \/ /\ \E d \in FrameDims : \E f \in FrameSet(d[1], d[2]) :
                ProcessFrame(f, d)
          /\ samples_taken' = samples_taken + 1
          /\ Goto(IF samples_taken + 1 < sample_frames THEN "sequential"
                  ELSE "release")
    /\ UNCHANGED <<httpVars, argVars, capVars, frame_count, indices, i, mapped>>

\* line 167
Release ==
    /\ pc = "release"
    /\ cap_open' = FALSE
    /\ Goto("finish")
    /\ UNCHANGED <<httpVars, argVars, opened, loopVars, boxVars, histVars,
                   mapped>>

\* the width without the + 1
VisWNoPlusOne(box) == box.max_x - box.min_x

VisW(box) == box.max_x - box.min_x + 1
VisH(box) == box.max_y - box.min_y + 1

\* lines 169-190: <<value returned, failure path, level logged>>
FinalRatio(found, box) ==
    IF ~found \/ box.min_x = NoneInt THEN <<DEFAULT_RATIO, "empty", "WARNING">>
    ELSE IF VisH(box) <= 0 \/ VisW(box) <= 0
         THEN <<DEFAULT_RATIO, "degenerate", "ERROR">>
    ELSE LET aspect_ratio == Round2(VisW(box), VisH(box))
         IN  <<Classify(aspect_ratio), "",
               IF Classify(aspect_ratio) = aspect_ratio THEN "INFO" ELSE "WARNING">>

Finish ==
    /\ pc = "finish"
    /\ LET r == FinalRatio(found_any, Box)
       IN  Logged(r[3], Return(r[1], r[2]))
    /\ UNCHANGED <<httpVars, argVars, capVars, loopVars, boxVars, histVars,
                   mapped>>

\* only OpenCV's errors caught
CatchesCvOnly(e) == e = "cv2.error"

\* line 192: except Exception
Catches(e) == e \in {"ZeroDivisionError", "TypeError", "cv2.error"}

\* lines 192-194: the handler logs and returns the default; an exception
\* it does not catch, or one its own _log call raises, leaves the function
ExceptHandler ==
    /\ pc = "except"
    /\ IF Catches(exc) /\ ~LogRaises(log_func, "ERROR")
       THEN Return(DEFAULT_RATIO, "exception")
       ELSE Goto("propagated")
    /\ UNCHANGED <<httpVars, argVars, capVars, loopVars, boxVars, histVars,
                   mapped>>

(***************************************************************************)
(* movie_dimension.py lines 197-231: get_file_path_from_plex.  response is *)
(* what the catalog answered: PlexError for anything that raises (network, *)
(* HTTP status, malformed JSON), otherwise the value of the file field     *)
(* (None when the field or the part is absent).                            *)
(***************************************************************************)
PlexError == <<"error">>
PlexResponses == {PlexError, None, <<>>} \cup PlexPaths

get_file_path_from_plex(conf, response) ==
    IF ~conf THEN None
    ELSE IF response = PlexError THEN None
    ELSE IF ~Truthy(response) THEN None
    ELSE response

(***************************************************************************)
(* app.py lines 47-72: the /calculate handler.                             *)
(***************************************************************************)
\* 400 as soon as one of the two is missing
ValidateEither(fp, rk) ==
    IF ~Truthy(fp) \/ ~Truthy(rk) THEN <<400, "responded">>
    ELSE <<0, "http_resolve">>

\* lines 55 and 58: <<status of an immediate response or 0, next position>>
Validate(fp, rk) ==
    IF ~Truthy(fp) /\ ~Truthy(rk) THEN <<400, "responded">>
    ELSE IF Truthy(rk) /\ ~Truthy(fp) THEN <<0, "http_lookup">>
    ELSE <<0, "http_resolve">>

\* lines 49-58
HttpValidate ==
    /\ pc = "http"
    /\ status' = Validate(req_file_path, rating_key)[1]
    /\ Goto(Validate(req_file_path, rating_key)[2])
    /\ file_path' = req_file_path
    /\ UNCHANGED <<caller, req_file_path, rating_key, plex_conf, plex_path, valid,
                   log_func, sample_frames, black_thresh, capVars, loopVars,
                   boxVars, histVars, mapped>>

\* line 60: the status of the response when the lookup gave p, 0 when the
\* handler goes on
LookupStatus(p) == IF ~Truthy(p) THEN 500 ELSE 0

\* lines 59-63
HttpLookup ==
    /\ pc = "http_lookup"
    /\ \E response \in PlexResponses :
          plex_path' = get_file_path_from_plex(plex_conf, response)
    /\ status' = LookupStatus(plex_path')
    /\ IF status' # 0
       THEN /\ Goto("responded")
            /\ file_path' = file_path
       ELSE /\ file_path' = map_plex_path_to_container(plex_path')
            /\ Goto("http_resolve")
    /\ UNCHANGED <<caller, req_file_path, rating_key, plex_conf, valid,
                   log_func, sample_frames, black_thresh, capVars, loopVars,
                   boxVars, histVars, mapped>>

\* lines 66-69: a relative path is taken under VIDEO_ROOT, then the detector
\* is called with its default arguments
HttpResolve ==
    /\ pc = "http_resolve"
    /\ file_path' = IF ~IsAbs(file_path) THEN Join(VIDEO_ROOT, file_path)
                    ELSE file_path
    /\ Goto("start")
    /\ UNCHANGED <<httpVars, log_func, sample_frames, black_thresh, capVars,
                   loopVars, boxVars, histVars, mapped>>

\* line 71
Valid(aspect) == aspect # 176

\* lines 69-72
HttpRespond ==
    /\ pc = "returned"
    /\ caller = "http"
    /\ valid' = Valid(result)
    /\ status' = 200
    /\ Goto("responded")
    /\ UNCHANGED <<caller, req_file_path, rating_key, plex_conf, plex_path,
                   argVars, capVars, loopVars, boxVars, histVars, mapped>>

Next ==
    \/ CheckPath \/ OpenCapture \/ ReadFrameCount \/ ComputeIndices
    \/ IndexedIter \/ SequentialIter \/ Release \/ Finish \/ ExceptHandler
    \/ HttpValidate \/ HttpLookup \/ HttpResolve \/ HttpRespond

Spec == Init /\ [][Next]_vars

(***************************************************************************)
(* The sample indices on their own: lines 89-96 for every frame count and  *)
(* sample count up to MaxTotal and MaxN.                                   *)
(***************************************************************************)
IndexInit ==
    /\ LocalsInit
    /\ NoRequest
    /\ caller = "direct" /\ pc = "indices"
    /\ mapped = None
    /\ file_path = SomeAbs /\ log_func = "none"
    /\ black_thresh = DefaultBlackThresh
    /\ cap_open = TRUE /\ opened = TRUE
    /\ frame_count \in (-1)..MaxTotal
    /\ sample_frames \in (-1)..MaxN

IndexSpec == IndexInit /\ [][ComputeIndices]_vars

(***************************************************************************)
(* The path resolver on its own: map_plex_path_to_container for every      *)
(* path of up to MaxPathLen characters.                                    *)
(***************************************************************************)
Paths == UNION {[1..n -> Chars] : n \in 0..MaxPathLen}

PathInit ==
    /\ LocalsInit
    /\ caller = "http" /\ pc = "map"
    /\ req_file_path = None /\ rating_key = <<"7">> /\ plex_conf = TRUE
    /\ status = 0 /\ valid = FALSE
    /\ plex_path \in Paths \cup {None}
    /\ mapped = None
    /\ file_path = None /\ log_func = "none"
    /\ sample_frames = DefaultSampleFrames
    /\ black_thresh = DefaultBlackThresh
    /\ cap_open = FALSE /\ opened = FALSE /\ frame_count = 0

\* line 63
MapPath ==
    /\ pc = "map"
    /\ mapped' = map_plex_path_to_container(plex_path)
    /\ Goto("mapped")
    /\ UNCHANGED <<httpVars, argVars, capVars, loopVars, boxVars, histVars>>

PathSpec == PathInit /\ [][MapPath]_vars

(***************************************************************************)
(* Properties.                                                             *)
(***************************************************************************)
\* the bands as the specification's table states them, in hundredths
Bands == {<<175, 179>>, <<235, 240>>, <<220, 225>>, <<184, 190>>}
InBand(r) == \E b \in Bands : b[1] <= r /\ r <= b[2]

\* the last path component: what follows the last separator
LastComponent(s) ==
    LET seps == {k \in 1..Len(s) : s[k] = Sep}
    IN  IF seps = {} THEN s
        ELSE SubSeq(s, (CHOOSE k \in seps : \A m \in seps : m <= k) + 1, Len(s))

\* s without its leading separators
DropLeadingSeps(s) ==
    LET rest == {k \in 1..Len(s) : s[k] # Sep}
    IN  IF rest = {} THEN <<>>
        ELSE SubSeq(s, CHOOSE k \in rest : \A m \in rest : k <= m, Len(s))

ReRooted(rel) == VIDEO_ROOT \o <<Sep>> \o rel

\* the four rules, first match wins, applied to path n
RuleResult(n) ==
    IF StartsWith(n, VIDEO_ROOT) THEN n
    ELSE IF Len(n) >= 3 /\ n[1] \in Letters /\ n[2] = ":" /\ n[3] = Sep
         THEN ReRooted(DropLeadingSeps(SubSeq(n, 3, Len(n))))
    ELSE IF Len(n) >= 1 /\ n[1] = Sep THEN ReRooted(DropLeadingSeps(n))
    ELSE ReRooted(LastComponent(n))

\* C8 as stated: the rules resolve the catalog path, and a path that starts
\* with the local root comes back unchanged.
C8_RulesOnCatalogPath ==
    (pc = "mapped" /\ Truthy(plex_path)) =>
        /\ mapped = RuleResult(Normalize(plex_path))
        /\ StartsWith(plex_path, VIDEO_ROOT) => mapped = plex_path

\* C8 amended: the catalog path is first normalised (a doubled backslash
\* and then every backslash becomes '/', surrounding whitespace is
\* trimmed) and the normalised path is resolved by the first matching rule:
\* it starts with the local root: the normalised path is returned, which is
\* the catalog path itself when that has no backslash and no surrounding
\* whitespace; a drive letter, ':' and a separator: prefix and leading
\* separators stripped, re-rooted; a leading separator: leading separators
\* stripped, re-rooted; anything else: last component re-rooted.
C8_RulesOnNormalizedPath ==
    (pc = "mapped" /\ Truthy(plex_path)) =>
        /\ mapped = RuleResult(Normalize(plex_path))
        /\ (StartsWith(plex_path, VIDEO_ROOT)
            /\ \A k \in 1..Len(plex_path) : plex_path[k] # Bsl
            /\ plex_path[Len(plex_path)] # " ") => mapped = plex_path

\* Y:\Y\Y is mapped to <root>/Y/Y
C8_Witness ==
    /\ pc = "mapped"
    /\ plex_path = <<"Y", ":", Bsl, "Y", Bsl, "Y">>
    /\ mapped = VIDEO_ROOT \o <<Sep, "Y", Sep, "Y">>

\* C7: for a frame count total > 0 and a sample count n >= 1 the indices
\* are non-decreasing, lie in [0, total-1] and include 0; total <= n gives
\* exactly 0..total-1, total > n gives n entries min(total-1, i*step) with
\* step = max(1, total // n).
C7_SampleIndices ==
    (pc # "indices" /\ frame_count > 0 /\ sample_frames >= 1) =>
        /\ \A k \in 1..(Len(indices) - 1) : indices[k] <= indices[k + 1]
        /\ \A k \in 1..Len(indices) : 0 <= indices[k] /\ indices[k] <= frame_count - 1
        /\ \E k \in 1..Len(indices) : indices[k] = 0
        /\ frame_count <= sample_frames =>
              /\ Len(indices) = frame_count
              /\ \A k \in 1..frame_count : indices[k] = k - 1
        /\ frame_count > sample_frames =>
              /\ Len(indices) = sample_frames
              /\ \A k \in 1..sample_frames :
                    LET step == IF frame_count \div sample_frames >= 1
                                THEN frame_count \div sample_frames ELSE 1
                        at == (k - 1) * step
                    IN  indices[k] = IF at <= frame_count - 1 THEN at
                                     ELSE frame_count - 1

\* 100 frames, 8 samples
C7_Witness ==
    /\ pc = "indexed"
    /\ frame_count = 100 /\ sample_frames = 8
    /\ indices = <<0, 12, 24, 36, 48, 60, 72, 84>>

\* the positions of calculate_visible_height before it returns
Running == {"start", "open", "count", "indices", "indexed", "sequential",
            "release", "finish", "except"}
IndexedMode == frame_count > 0 /\ indices # <<>>

\* C1: calculate_visible_height never lets an exception out: from every
\* position it can go on until it returns, what it returns is a number, and
\* on every failure path (file missing, open failure, an exception of the
\* index computation or of a pass of a loop) the number is the default.
C1_NeverPropagates ==
    /\ pc # "propagated"
    /\ pc \in Running => ENABLED Next
    /\ pc = "returned" => result # NoneInt
    /\ (pc = "returned" /\ failure # "") => result = DEFAULT_RATIO
    /\ (pc = "returned" /\ exc # "") => failure = "exception"
    /\ i <= Len(indices)
    /\ samples_taken <= Max2(sample_frames, 0)

\* an exception of a loop pass, with a callback that rejects level=
C1_Witness ==
    /\ pc = "returned" /\ exc = "cv2.error" /\ log_func = "positional"
    /\ failure = "exception" /\ result = DEFAULT_RATIO

\* C2 as stated: once the resource was opened, it is released when the
\* function is left, whichever way it is left.
C2_ReleasedOnEveryExit ==
    (pc \in {"returned", "responded", "propagated"} /\ opened) => ~cap_open

\* C3: what is returned is the default or lies in a band; a computed ratio
\* is returned unchanged exactly when it lies in some band, otherwise the
\* default is returned; the bands do not overlap.
C3_DefaultOrInBand ==
    /\ pc = "returned" => (result = 176 \/ InBand(result))
    /\ (pc = "returned" /\ failure = "") =>
          LET computed == Round2(max_x - min_x + 1, max_y - min_y + 1)
          IN  /\ InBand(computed) => result = computed
              /\ ~InBand(computed) => result = 176
    /\ \A a \in Bands : \A b \in Bands : a # b => (a[2] < b[1] \/ b[2] < a[1])
    /\ {VALID_RATIOS[k] : k \in 1..Len(VALID_RATIOS)} = Bands

\* a 12 x 5 picture: 2.40
C3_Witness ==
    /\ pc = "returned" /\ failure = ""
    /\ max_x - min_x + 1 = 12 /\ max_y - min_y + 1 = 5 /\ result = 240

C5_FullFrameRatio ==
    (pc = "returned" /\ failure = "" /\ width # 0 /\ brightOnly) =>
        result = Round2(width, height)

\* C5 amended: when at least one sampled frame is decoded, every decoded
\* frame is brighter than the threshold over the full frame and no
\* exception interrupts the sampling, the ratio returned is width/height
\* rounded to 2 decimals if that lies in one of the four bands, and the
\* default 1.76 otherwise.
C5_FullFrameRatioClassified ==
    (pc = "returned" /\ failure = "" /\ width # 0 /\ brightOnly) =>
        result = IF InBand(Round2(width, height)) THEN Round2(width, height)
                 ELSE 176

\* full bright frames of 7 x 4: 1.75
C5_Witness ==
    /\ pc = "returned" /\ failure = "" /\ brightOnly
    /\ width = 7 /\ height = 4 /\ result = 175

\* C6: when no sampled frame has a pixel above the threshold, in the
\* indexed and in the sequential loop, the detector returns the default
\* and the endpoint answers valid = false.
C6_AllBlackIsDefault ==
    /\ (pc = "returned" /\ opened /\ ~anyAbove) => result = 176
    /\ (pc = "responded" /\ status = 200 /\ ~anyAbove) =>
          (result = 176 /\ valid = FALSE)
    /\ (pc = "returned" /\ opened /\ ~anyAbove /\ failure # "exception") =>
          failure = "empty"

\* two black frames read by index, answered by the endpoint
C6_Witness ==
    /\ pc = "responded" /\ status = 200 /\ valid = FALSE
    /\ IndexedMode /\ i = 2 /\ width # 0 /\ ~anyAbove /\ ~failSeen
    /\ failure = "empty"

\* C9 as stated: in both loops a failed read is skipped and the remaining
\* samples are still read, so that the loop ends only when every planned
\* sample was taken.
C9_FailedReadSkipped ==
    (pc = "release" /\ exc = "") =>
        IF IndexedMode THEN i = Len(indices)
        ELSE samples_taken = Max2(sample_frames, 0)

\* C9 amended: in the indexed loop a failed read is skipped: the remaining
\* indices are still read and a later frame with content contributes to the
\* box and the ratio.  In the sequential loop a failed read ends the
\* sampling: no further frame is read, and the frames analysed before it
\* alone decide the ratio.  In neither loop does a failed read make the
\* call fail.
C9_FailedReadByLoop ==
    /\ (pc = "release" /\ IndexedMode) => i = Len(indices)
    /\ (~IndexedMode /\ failSeen) => pc \notin {"sequential"}
    /\ (pc = "release" /\ ~IndexedMode /\ ~failSeen) =>
          samples_taken = Max2(sample_frames, 0)
    /\ lateContent => (IndexedMode /\ found_any /\ failSeen)
    /\ (pc = "returned" /\ failSeen /\ exc = "") => failure \in {"", "empty"}
    /\ (pc = "returned" /\ lateContent /\ exc = "") =>
          (failure = "" /\ result = IF InBand(Round2(max_x - min_x + 1, max_y - min_y + 1))
                                    THEN Round2(max_x - min_x + 1, max_y - min_y + 1)
                                    ELSE 176)

\* indexed loop: a failed read, then a 12 x 5 picture that decides the ratio
C9_Witness ==
    /\ pc = "returned" /\ IndexedMode /\ lateContent /\ i = 2
    /\ width = 12 /\ height = 5 /\ result = 240

\* the box covers nothing yet
BoxEmpty == min_x = NoneInt \/ min_x > max_x \/ min_y > max_y
\* a pass of a loop decoded a frame
FrameStep == (i' = i + 1 \/ samples_taken' = samples_taken + 1) /\ failSeen' = failSeen

BoxWellFormed ==
    found_any => /\ min_x <= max_x /\ min_y <= max_y
                 /\ max_x - min_x + 1 >= 1 /\ max_y - min_y + 1 >= 1
                 /\ 0 <= min_x /\ max_x <= width - 1
                 /\ 0 <= min_y /\ max_y <= height - 1

BoxStep ==
    /\ min_x # NoneInt =>
          /\ min_x' <= min_x /\ min_y' <= min_y
          /\ max_x' >= max_x /\ max_y' >= max_y
    /\ (FrameStep /\ ~lastHad') =>
          /\ found_any' = found_any
          /\ min_x # NoneInt =>
                (min_x' = min_x /\ min_y' = min_y /\ max_x' = max_x /\ max_y' = max_y)
          /\ BoxEmpty => BoxEmpty'
    /\ (FrameStep /\ lastHad') => (found_any' /\ ~BoxEmpty')

\* C10: the box only expands: once set, min_x and min_y never increase and
\* max_x and max_y never decrease; a frame without content pixels leaves it
\* as it is (the first decoded frame sets it to the empty extremes); once a
\* frame has contributed the box is well-formed and the visible width and
\* height are at least 1.
C10_BoxOnlyExpands == [](BoxWellFormed) /\ [][BoxStep]_vars

\* the box has grown to the full 7 x 4 frame and a black frame followed
C10_Witness ==
    /\ found_any /\ ~lastHad /\ pc \in {"indexed", "sequential"}
    /\ width = 7 /\ height = 4
    /\ min_x = 0 /\ max_x = 6 /\ min_y = 0 /\ max_y = 3

\* the distance of frame f to the nearest sampled index
Abs(n) == IF n < 0 THEN -n ELSE n
Nearest(f) ==
    CHOOSE d \in 0..MaxTotal + 1 :
        /\ \E k \in 1..Len(indices) : Abs(f - indices[k]) = d
        /\ \A k \in 1..Len(indices) : Abs(f - indices[k]) >= d
\* the sampling was planned for more frames than samples
Planned == pc # "indices" /\ sample_frames >= 1 /\ frame_count > sample_frames

\* C11 as stated: when the frame count total exceeds the sample count n,
\* consecutive sampled indices differ by exactly step = total // n, and every
\* frame index in [0, total-1], the last frames included, is at most step
\* frames away from some sampled index.
C11_UniformCoverage ==
    Planned =>
        LET step == frame_count \div sample_frames
        IN  /\ \A k \in 1..(Len(indices) - 1) : indices[k + 1] - indices[k] = step
            /\ \A f \in 0..(frame_count - 1) : Nearest(f) <= step

\* C11, what the indices do give: they are i * step without any clamping,
\* every frame up to the last sampled index (n-1) * step is at most
\* step \div 2 away from a sampled index, and the frames after it, which are
\* step - 1 + (total % n) many, are not sampled at all: the last frame is
\* exactly that far from the last sampled index.
C11_CoverageUpToLastSample ==
    Planned =>
        LET step == frame_count \div sample_frames
            last == (sample_frames - 1) * step
        IN  /\ Len(indices) = sample_frames
            /\ \A k \in 1..Len(indices) : indices[k] = (k - 1) * step
            /\ \A k \in 1..(Len(indices) - 1) : indices[k + 1] - indices[k] = step
            /\ \A f \in 0..last : Nearest(f) <= step \div 2
            /\ Nearest(frame_count - 1) = step - 1 + (frame_count % sample_frames)

\* 15 frames and 8 samples: frames 0..7 are sampled, the last frame is 7 away
C11_Witness ==
    /\ Planned /\ frame_count = 15 /\ sample_frames = 8
    /\ indices = <<0, 1, 2, 3, 4, 5, 6, 7>>
    /\ Nearest(14) = 7

====
